---- MODULE Spec2Model ----
(***************************************************************************)
(* The escrow program's instruction processor (src/src/processor.rs) as a  *)
(* state machine over a ledger of accounts.  One step is one invocation of *)
(* the program (InitEscrow or Exchange) run as its own transaction by the  *)
(* host runtime: the handler works on a copy of the ledger, and the        *)
(* runtime commits the copy when the handler returns Ok and discards it    *)
(* otherwise.                                                              *)
(***************************************************************************)
EXTENDS Integers, Sequences, FiniteSets, TLC

VARIABLES
    lamports,   \* account -> ledger balance (AccountInfo::lamports)
    owner,      \* account -> owning program (AccountInfo::owner)
    data,       \* account -> stored data    (AccountInfo::data)
    last        \* the last invocation: its command and its result

vars == <<lamports, owner, data, last>>

----------------------------------------------------------------------------
(* Bounds of the model *)

\* Token amounts and instruction amounts range over 0..MaxAmount.
MaxAmount == 2

\* Ledger balances are unsigned integers of LamportBits bits (u64 in the
\* program; narrowed so that the overflow of checked_add is reachable).
LamportBits == 6

U64_MAX == 2^LamportBits - 1

----------------------------------------------------------------------------
(* Identities *)

TokenProg == "TokenProg"      \* spl_token::id()
EscrowProg == "EscrowProg"    \* program_id of the escrow program
SystemProg == "SystemProg"    \* owner of wallets and of accounts that do not exist
OtherProg == "OtherProg"      \* some other program

Wallets == {"Alice", "Bob"}
TokenAccts == {"AliceX", "AliceY", "BobX", "BobY", "SelfX"}
RecordAccts == {"Esc1", "Esc2", "Forged"}
\* A record account that is its own initializer: it signed its InitEscrow
\* with its own key and is named as initializer_main_account in Exchange.
SelfAccts == {"Self"}
Accounts == Wallets \cup TokenAccts \cup RecordAccts \cup SelfAccts

\* Pubkey::find_program_address(&[seed], program_id): deterministic in its
\* two arguments, no private key, never the address of a wallet.
find_program_address(seed, program_id) ==
    [address |-> "Pda(" \o seed \o "," \o program_id \o ")", bump_seed |-> 255]

\* Pubkey::create_program_address(&[seed, &[bump]], program_id): what the
\* runtime recomputes from the signer seeds given to invoke_signed.
create_program_address(seed, bump_seed, program_id) ==
    IF bump_seed = find_program_address(seed, program_id).bump_seed
    THEN find_program_address(seed, program_id).address
    ELSE "OffCurve(" \o seed \o "," \o program_id \o ")"

Pda == find_program_address("escrow", EscrowProg).address

----------------------------------------------------------------------------
(* Account data *)

EmptyData == <<>>

\* The escrow record's layout: is_initialized, initializer_pubkey,
\* temp_token_account_pubkey, initializer_token_to_receive_account_pubkey,
\* expected_amount (1 + 32 + 32 + 32 + 8 bytes; one unit per field here).
Escrow_LEN == 5

\* A token account's layout: mint, owner (its authority), amount.
TokenAccount_LEN == 3

\* A record account as created for InitEscrow: all bytes zero.
ZeroedRecord == <<FALSE, SystemProg, SystemProg, SystemProg, 0>>

Escrow_unpack_unchecked(d) ==
    IF Len(d) # Escrow_LEN
    THEN [ok |-> FALSE, err |-> "InvalidAccountData"]
    ELSE [ok |-> TRUE,
          val |-> [is_initialized |-> d[1],
                   initializer_pubkey |-> d[2],
                   temp_token_account_pubkey |-> d[3],
                   initializer_token_to_receive_account_pubkey |-> d[4],
                   expected_amount |-> d[5]]]

Escrow_unpack(d) ==
    LET u == Escrow_unpack_unchecked(d) IN
    IF ~u.ok THEN u
    ELSE IF ~u.val.is_initialized
    THEN [ok |-> FALSE, err |-> "UninitializedAccount"]
    ELSE u

Escrow_pack(e) ==
    <<e.is_initialized, e.initializer_pubkey, e.temp_token_account_pubkey,
      e.initializer_token_to_receive_account_pubkey, e.expected_amount>>

TokenAccount_unpack(d) ==
    IF Len(d) # TokenAccount_LEN
    THEN [ok |-> FALSE, err |-> "InvalidAccountData"]
    ELSE [ok |-> TRUE, val |-> [mint |-> d[1], owner |-> d[2], amount |-> d[3]]]

TokenAccount_pack(t) == <<t.mint, t.owner, t.amount>>

----------------------------------------------------------------------------
(* Collaborators: the rent oracle, checked arithmetic *)

\* Rent::minimum_balance(data_len): linear in the account's size.
minimum_balance(data_len) == data_len + 1

\* A rent oracle that exempts every account.
is_exempt_any(balance, data_len) == TRUE

\* Rent::is_exempt(lamports, data_len)
is_exempt(balance, data_len) == balance >= minimum_balance(data_len)

\* u64::wrapping_add
wrapping_add(a, b) == [some |-> TRUE, val |-> (a + b) % (U64_MAX + 1)]

\* u64::checked_add: None on overflow.
checked_add(a, b) ==
    IF a + b > U64_MAX THEN [some |-> FALSE] ELSE [some |-> TRUE, val |-> a + b]

\* A handler's outcome: its ProgramResult, the ledger as it left it, and the
\* requests it issued to the token program, in order.
Ok(L, issued) == [result |-> "Ok", ledger |-> L, issued |-> issued]
Err(e, L, issued) == [result |-> e, ledger |-> L, issued |-> issued]

----------------------------------------------------------------------------
(* Collaborator: the token program (spl_token), on a working ledger L *)

TokErr(e) == [ok |-> FALSE, err |-> e]

\* Processor::validate_owner: the account's authority is the one presented,
\* and it signed.
validate_owner(expected_owner, authority, signers) ==
    IF expected_owner # authority THEN "OwnerMismatch"
    ELSE IF authority \notin signers THEN "MissingRequiredSignature"
    ELSE "Ok"

\* spl_token Transfer
token_transfer(L, source, destination, authority, signers, amount) ==
    LET s == TokenAccount_unpack(L.data[source])
        d == TokenAccount_unpack(L.data[destination])
    IN
    IF L.owner[source] # TokenProg \/ L.owner[destination] # TokenProg
    THEN TokErr("IncorrectProgramId")
    ELSE IF ~s.ok THEN TokErr(s.err)
    ELSE IF ~d.ok THEN TokErr(d.err)
    ELSE IF s.val.amount < amount THEN TokErr("InsufficientFunds")
    ELSE IF s.val.mint # d.val.mint THEN TokErr("MintMismatch")
    ELSE IF validate_owner(s.val.owner, authority, signers) # "Ok"
    THEN TokErr(validate_owner(s.val.owner, authority, signers))
    ELSE IF source = destination \/ amount = 0
    THEN [ok |-> TRUE, ledger |-> L]
    ELSE [ok |-> TRUE,
          ledger |-> [L EXCEPT
              !.data[source] =
                  TokenAccount_pack([s.val EXCEPT !.amount = @ - amount]),
              !.data[destination] =
                  TokenAccount_pack([d.val EXCEPT !.amount = @ + amount])]]

\* spl_token SetAuthority with AuthorityType::AccountOwner
token_set_authority(L, account, new_authority, authority, signers) ==
    LET t == TokenAccount_unpack(L.data[account]) IN
    IF L.owner[account] # TokenProg THEN TokErr("IncorrectProgramId")
    ELSE IF ~t.ok THEN TokErr(t.err)
    ELSE IF validate_owner(t.val.owner, authority, signers) # "Ok"
    THEN TokErr(validate_owner(t.val.owner, authority, signers))
    ELSE [ok |-> TRUE,
          ledger |-> [L EXCEPT !.data[account] =
              TokenAccount_pack([t.val EXCEPT !.owner = new_authority])]]

\* spl_token CloseAccount: the account must hold no tokens; its ledger
\* balance goes to the destination and its data is wiped.
token_close_account(L, account, destination, authority, signers) ==
    LET t == TokenAccount_unpack(L.data[account])
        sum == checked_add(L.lamports[destination], L.lamports[account])
    IN
    IF account = destination THEN TokErr("InvalidAccountData")
    ELSE IF L.owner[account] # TokenProg THEN TokErr("IncorrectProgramId")
    ELSE IF ~t.ok THEN TokErr(t.err)
    ELSE IF t.val.amount # 0 THEN TokErr("NonNativeHasBalance")
    ELSE IF validate_owner(t.val.owner, authority, signers) # "Ok"
    THEN TokErr(validate_owner(t.val.owner, authority, signers))
    ELSE IF ~sum.some THEN TokErr("Overflow")
    ELSE [ok |-> TRUE,
          ledger |-> [L EXCEPT !.lamports[destination] = sum.val,
                               !.lamports[account] = 0,
                               !.data[account] = EmptyData]]

----------------------------------------------------------------------------
(* Collaborator: the host runtime *)

\* spl_token::instruction::{set_authority, transfer, close_account}: the
\* builders refuse a token program id that is not spl_token::id().
token_instruction(token_program_id, kind, account, other, authority, amount) ==
    IF token_program_id # TokenProg
    THEN [ok |-> FALSE, err |-> "IncorrectProgramId"]
    ELSE [ok |-> TRUE,
          ix |-> [kind |-> kind, account |-> account, other |-> other,
                  authority |-> authority, amount |-> amount,
                  keys |-> IF kind = "SetAuthority"
                           THEN {account, authority}
                           ELSE {account, other, authority}]]

\* What the runtime accepts of a program's own writes between L0 and L1:
\* only the owner of an account may change its data or lower its balance,
\* and the balances' sum is kept.
RECURSIVE SumOver(_, _)
SumOver(f, S) ==
    IF S = {} THEN 0
    ELSE LET x == CHOOSE y \in S : TRUE IN f[x] + SumOver(f, S \ {x})

\* A runtime that accepts whatever the program wrote.
runtime_verify_none(program_id, L0, L1) == "Ok"

runtime_verify(program_id, L0, L1) ==
    IF \E a \in Accounts :
           L1.data[a] # L0.data[a] /\ L0.owner[a] # program_id
    THEN "ExternalAccountDataModified"
    ELSE IF \E a \in Accounts :
           L1.lamports[a] < L0.lamports[a] /\ L0.owner[a] # program_id
    THEN "ExternalAccountLamportSpend"
    ELSE IF SumOver(L1.lamports, Accounts) # SumOver(L0.lamports, Accounts)
    THEN "UnbalancedInstruction"
    ELSE "Ok"

\* invoke_signed: every account the instruction names must be among
\* account_infos; an authority counts as a signer if it signed the
\* transaction or is a program address derived from signers_seeds.
invoke_signed(L, ix, account_infos, tx_signers, seed_signers) ==
    LET signers == (tx_signers \cap account_infos) \cup seed_signers IN
    IF ~(ix.keys \subseteq account_infos) THEN TokErr("MissingAccount")
    ELSE IF ix.authority \notin signers THEN TokErr("PrivilegeEscalation")
    ELSE IF ix.kind = "SetAuthority"
    THEN token_set_authority(L, ix.account, ix.other, ix.authority, signers)
    ELSE IF ix.kind = "Transfer"
    THEN token_transfer(L, ix.account, ix.other, ix.authority, signers, ix.amount)
    ELSE token_close_account(L, ix.account, ix.other, ix.authority, signers)

invoke(L, ix, account_infos, tx_signers) ==
    invoke_signed(L, ix, account_infos, tx_signers, {})

\* A runtime that keeps accounts left without balance.
purge_keeps_accounts(L, accounts) == L

\* The end of the transaction: an Ok result commits the handler's ledger,
\* and accounts of the transaction left with no balance cease to exist;
\* any error discards everything the invocation did.
purge(L, accounts) ==
    [L EXCEPT
        !.data = [a \in Accounts |->
            IF a \in accounts /\ L.lamports[a] = 0 THEN EmptyData ELSE @[a]],
        !.owner = [a \in Accounts |->
            IF a \in accounts /\ L.lamports[a] = 0 THEN SystemProg ELSE @[a]]]

\* A runtime that keeps what a failed invocation had already written.
commit_no_rollback(L, out, accounts) == purge(out.ledger, accounts)

commit(L, out, accounts) ==
    IF out.result = "Ok" THEN purge(out.ledger, accounts) ELSE L

----------------------------------------------------------------------------
(* Processor *)

\* An invocation's accounts, by the handler's names for them; a slot the
\* command does not have is NoAccount.
NoAccount == "-"

\* A handler that takes the first account's key without asking for its
\* signature.
is_signer_unchecked(account, signers) == TRUE

\* AccountInfo::is_signer
is_signer(account, signers) == account \in signers

\* A handler that takes any receive account.
owned_by_anyone(L, token_to_receive_account) == TRUE

\* *token_to_receive_account.owner == spl_token::id()
owned_by_token_program(L, token_to_receive_account) ==
    L.owner[token_to_receive_account] = TokenProg

\* A handler that never finds a record flagged.
never_initialized(escrow_info) == FALSE

\* The guard against re-initialization: escrow_info.is_initialized()
already_initialized(escrow_info) == escrow_info.is_initialized

\* A record with the custody and receive identities in each other's place.
new_escrow_info_swapped(initializer, temp_token_account, token_to_receive_account, amount) ==
    [is_initialized |-> TRUE,
     initializer_pubkey |-> initializer,
     temp_token_account_pubkey |-> token_to_receive_account,
     initializer_token_to_receive_account_pubkey |-> temp_token_account,
     expected_amount |-> amount]

\* The record InitEscrow writes.
new_escrow_info(initializer, temp_token_account, token_to_receive_account, amount) ==
    [is_initialized |-> TRUE,
     initializer_pubkey |-> initializer,
     temp_token_account_pubkey |-> temp_token_account,
     initializer_token_to_receive_account_pubkey |-> token_to_receive_account,
     expected_amount |-> amount]

\* The authority InitEscrow hands the custody account to.
new_authority(program_id) == find_program_address("escrow", program_id).address

process_init_escrow(L, a, amount, program_id) ==
    LET initializer == a.initializer
        temp_token_account == a.temp_token_account
        token_to_receive_account == a.initializer_token_to_receive_account
        escrow_account == a.escrow_account
        token_program == a.token_program
    IN
    IF ~is_signer(initializer, a.signers)
    THEN Err("MissingRequiredSignature", L, <<>>)
    ELSE IF ~owned_by_token_program(L, token_to_receive_account)
    THEN Err("IncorrectProgramId", L, <<>>)
    ELSE IF ~is_exempt(L.lamports[escrow_account], Len(L.data[escrow_account]))
    THEN Err("NotRentExempt", L, <<>>)
    ELSE LET u == Escrow_unpack_unchecked(L.data[escrow_account]) IN
    IF ~u.ok THEN Err(u.err, L, <<>>)
    ELSE IF already_initialized(u.val)
    THEN Err("AccountAlreadyInitialized", L, <<>>)
    ELSE
    LET escrow_info == new_escrow_info(initializer, temp_token_account,
                                       token_to_receive_account, amount)
        L1 == [L EXCEPT !.data[escrow_account] = Escrow_pack(escrow_info)]
        pda == new_authority(program_id)
        owner_change_ix ==
            token_instruction(token_program, "SetAuthority",
                              temp_token_account, pda, initializer, 0)
    IN
    IF ~owner_change_ix.ok THEN Err(owner_change_ix.err, L1, <<>>)
    ELSE IF runtime_verify(program_id, L, L1) # "Ok"
    THEN Err(runtime_verify(program_id, L, L1), L1, <<owner_change_ix.ix>>)
    ELSE
    LET r == invoke(L1, owner_change_ix.ix,
                    {temp_token_account, initializer, token_program},
                    a.signers)
    IN
    IF ~r.ok THEN Err(r.err, L1, <<owner_change_ix.ix>>)
    ELSE Ok(r.ledger, <<owner_change_ix.ix>>)

\* Checks that let everything through.
amount_matches_any(temp_token_account_info, amount) == TRUE

temp_matches_any(escrow_account_info, temp_token_account) == TRUE

initializer_matches_any(escrow_account_info, initializer_main_account) == TRUE

\* The checks of Exchange, one per `if` of the handler.
amount_matches(temp_token_account_info, amount) ==
    temp_token_account_info.amount = amount

initializer_matches(escrow_account_info, initializer_main_account) ==
    escrow_account_info.initializer_pubkey = initializer_main_account

receive_matches(escrow_account_info, initializer_token_to_receive_account) ==
    escrow_account_info.initializer_token_to_receive_account_pubkey
        = initializer_token_to_receive_account

temp_matches(escrow_account_info, temp_token_account) ==
    escrow_account_info.temp_token_account_pubkey = temp_token_account

\* Paying the initializer the amount the caller supplied.
amount_to_initializer_supplied(escrow_account_info, amount) == amount

\* The amounts of the two transfers of Exchange, and where the custody
\* account's ledger balance goes.
amount_to_initializer(escrow_account_info, amount) ==
    escrow_account_info.expected_amount

amount_to_taker(temp_token_account_info, amount) ==
    temp_token_account_info.amount

close_destination(a) == a.initializer_main_account

\* A reclaim that wipes the record's bytes and forgets its balance.
close_escrow_account_keeps_balance(L, initializer_main_account, escrow_account) ==
    [ok |-> TRUE, ledger |-> [L EXCEPT !.data[escrow_account] = ZeroedRecord]]

\* The record account's reclaim: its balance is added, overflow-checked, to
\* the initializer's main account and set to 0.  `*data = &mut []` replaces
\* the handler's own slice; the stored bytes go when the runtime drops the
\* account, now without balance.
close_escrow_account(L, initializer_main_account, escrow_account) ==
    LET sum == checked_add(L.lamports[initializer_main_account],
                           L.lamports[escrow_account])
    IN
    IF ~sum.some THEN [ok |-> FALSE, err |-> "AmountOverflow"]
    ELSE [ok |-> TRUE,
          ledger |-> [[L EXCEPT !.lamports[initializer_main_account] = sum.val]
                         EXCEPT !.lamports[escrow_account] = 0]]

process_exchange_escrow(L, a, amount, program_id) ==
    LET taker == a.taker
        taker_sending_token_account == a.taker_sending_token_account
        taker_token_to_receive_account == a.taker_token_to_receive_account
        temp_token_account == a.temp_token_account
        initializer_main_account == a.initializer_main_account
        initializer_token_to_receive_account == a.initializer_token_to_receive_account
        escrow_account == a.escrow_account
        token_program == a.token_program
        pda_account == a.pda_account
    IN
    IF ~is_signer(taker, a.signers)
    THEN Err("MissingRequiredSignature", L, <<>>)
    ELSE LET temp_token_account_info == TokenAccount_unpack(L.data[temp_token_account]) IN
    IF ~temp_token_account_info.ok THEN Err(temp_token_account_info.err, L, <<>>)
    ELSE IF ~amount_matches(temp_token_account_info.val, amount)
    THEN Err("EscrowAmountMismatch", L, <<>>)
    ELSE LET escrow_account_info == Escrow_unpack(L.data[escrow_account]) IN
    IF ~escrow_account_info.ok THEN Err(escrow_account_info.err, L, <<>>)
    ELSE IF ~initializer_matches(escrow_account_info.val, initializer_main_account)
    THEN Err("InvalidAccountData", L, <<>>)
    ELSE IF ~receive_matches(escrow_account_info.val, initializer_token_to_receive_account)
    THEN Err("InvalidAccountData", L, <<>>)
    ELSE IF ~temp_matches(escrow_account_info.val, temp_token_account)
    THEN Err("InvalidAccountData", L, <<>>)
    ELSE
    \* transfer amount from taker to initializer
    LET transfer_to_initializer_ix ==
            token_instruction(token_program, "Transfer",
                              taker_sending_token_account,
                              initializer_token_to_receive_account,
                              taker,
                              amount_to_initializer(escrow_account_info.val, amount))
    IN
    IF ~transfer_to_initializer_ix.ok
    THEN Err(transfer_to_initializer_ix.err, L, <<>>)
    ELSE
    LET ix1 == transfer_to_initializer_ix.ix
        r1 == invoke(L, ix1,
                     {taker_sending_token_account,
                      initializer_token_to_receive_account,
                      taker, token_program},
                     a.signers)
    IN
    IF ~r1.ok THEN Err(r1.err, L, <<ix1>>)
    ELSE
    \* transfer to the taker
    LET L1 == r1.ledger
        found == find_program_address("escrow", program_id)
        pda == found.address
        seed_signers == {create_program_address("escrow", found.bump_seed, program_id)}
        ix2 == token_instruction(token_program, "Transfer",
                                 temp_token_account,
                                 taker_token_to_receive_account,
                                 pda,
                                 amount_to_taker(temp_token_account_info.val, amount)).ix
        r2 == invoke_signed(L1, ix2,
                            {temp_token_account, taker_token_to_receive_account,
                             pda_account, token_program},
                            a.signers, seed_signers)
    IN
    IF ~r2.ok THEN Err(r2.err, L1, <<ix1, ix2>>)
    ELSE
    \* we close the temp account
    LET L2 == r2.ledger
        ix3 == token_instruction(token_program, "CloseAccount",
                                 temp_token_account, close_destination(a), pda, 0).ix
        r3 == invoke_signed(L2, ix3,
                            {temp_token_account, initializer_main_account,
                             pda_account, token_program},
                            a.signers, seed_signers)
    IN
    IF ~r3.ok THEN Err(r3.err, L2, <<ix1, ix2, ix3>>)
    ELSE
    \* we close the escrow data account
    LET L3 == r3.ledger
        closed == close_escrow_account(L3, initializer_main_account, escrow_account)
    IN
    IF ~closed.ok THEN Err(closed.err, L3, <<ix1, ix2, ix3>>)
    ELSE IF runtime_verify(program_id, L3, closed.ledger) # "Ok"
    THEN Err(runtime_verify(program_id, L3, closed.ledger), closed.ledger,
             <<ix1, ix2, ix3>>)
    ELSE Ok(closed.ledger, <<ix1, ix2, ix3>>)

----------------------------------------------------------------------------
(* The state machine *)

Ledger == [lamports |-> lamports, owner |-> owner, data |-> data]

\* The accounts and amounts invocations are drawn from.
Amounts == 0..MaxAmount

\* The transaction is signed by the account in the first slot, or by
\* nobody.
InitEscrowAccounts ==
    {a \in [signers : {{}} \cup {{w} : w \in Wallets},
            initializer : Wallets,
            temp_token_account : {"AliceX", "BobY"},
            initializer_token_to_receive_account : {"AliceY", "BobY", "Alice"},
            escrow_account : RecordAccts,
            token_program : {TokenProg}] :
        a.signers \subseteq {a.initializer}}

\* An Exchange on the record that is its own initializer: the record
\* account is supplied as initializer_main_account too.
AliasedExchangeAccounts ==
    {a \in [signers : {{}} \cup {{w} : w \in Wallets},
            taker : Wallets,
            taker_sending_token_account : {"AliceY", "BobY"},
            taker_token_to_receive_account : {"BobX", "AliceY"},
            temp_token_account : {"SelfX"},
            initializer_main_account : SelfAccts,
            initializer_token_to_receive_account : {"AliceY"},
            escrow_account : SelfAccts,
            token_program : {TokenProg},
            pda_account : {Pda}] :
        a.signers = {a.taker}}

DistinctExchangeAccounts ==
    {a \in [signers : {{}} \cup {{w} : w \in Wallets},
            taker : Wallets,
            taker_sending_token_account : {"AliceY", "BobY"},
            taker_token_to_receive_account : {"BobX", "AliceY"},
            temp_token_account : {"AliceX", "BobY"},
            initializer_main_account : Wallets,
            initializer_token_to_receive_account : {"AliceY", "BobY"},
            escrow_account : RecordAccts,
            token_program : {TokenProg},
            pda_account : {Pda, "Bob"}] :
        a.signers = {a.taker} \/ (a.signers = {} /\ a.taker = "Bob")}

ExchangeAccounts == DistinctExchangeAccounts \cup AliasedExchangeAccounts

\* The accounts a transaction loads.
touched(a) == {a[f] : f \in DOMAIN a \ {"signers"}} \cap Accounts

InitEscrowOutcome(a, amount) == process_init_escrow(Ledger, a, amount, EscrowProg)

ExchangeOutcome(a, amount) == process_exchange_escrow(Ledger, a, amount, EscrowProg)

\* The ledger after the transaction.
After(a, out) == commit(Ledger, out, touched(a))

Apply(op, a, out) ==
    LET L == After(a, out) IN
    /\ lamports' = L.lamports
    /\ owner' = L.owner
    /\ data' = L.data
    /\ last' = [op |-> op, result |-> out.result]

InitEscrow ==
    \E a \in InitEscrowAccounts, amount \in Amounts :
        Apply("InitEscrow", a, InitEscrowOutcome(a, amount))

Exchange ==
    \E a \in ExchangeAccounts, amount \in Amounts :
        Apply("Exchange", a, ExchangeOutcome(a, amount))

\* Two wallets, four token accounts of two mints, two record accounts
\* created for the program (zeroed, rent-exempt), and Forged: an account of
\* another program that holds the bytes of an initialized record and no
\* balance, as its owner can leave it earlier in a transaction.  Self is an
\* open escrow whose initializer is the record account itself, with SelfX
\* its custody account, as InitEscrow signed by Self's key leaves them.  Bob's
\* wallet is so full that reclaiming a custody account and a record account
\* into it overflows; Alice's is not.
Init ==
    /\ lamports = [a \in Accounts |->
            IF a = "Alice" THEN 2 * minimum_balance(Escrow_LEN)
            ELSE IF a = "Bob"
            THEN U64_MAX - minimum_balance(TokenAccount_LEN) - minimum_balance(Escrow_LEN) + 1
            ELSE IF a \in TokenAccts THEN minimum_balance(TokenAccount_LEN)
            ELSE IF a = "Forged" THEN 0
            ELSE minimum_balance(Escrow_LEN)]
    /\ owner = [a \in Accounts |->
            IF a \in Wallets THEN SystemProg
            ELSE IF a \in TokenAccts THEN TokenProg
            ELSE IF a = "Forged" THEN OtherProg
            ELSE EscrowProg]
    /\ data = [a \in Accounts |->
            IF a \in Wallets THEN EmptyData
            ELSE IF a = "AliceX" THEN TokenAccount_pack([mint |-> "X", owner |-> "Alice", amount |-> MaxAmount])
            ELSE IF a = "AliceY" THEN TokenAccount_pack([mint |-> "Y", owner |-> "Alice", amount |-> 0])
            ELSE IF a = "BobX" THEN TokenAccount_pack([mint |-> "X", owner |-> "Bob", amount |-> 0])
            ELSE IF a = "BobY" THEN TokenAccount_pack([mint |-> "Y", owner |-> "Bob", amount |-> MaxAmount])
            ELSE IF a = "SelfX" THEN TokenAccount_pack([mint |-> "X", owner |-> Pda, amount |-> 1])
            ELSE IF a = "Self"
            THEN Escrow_pack(new_escrow_info("Self", "SelfX", "AliceY", 0))
            ELSE IF a = "Forged"
            THEN Escrow_pack([is_initialized |-> TRUE,
                              initializer_pubkey |-> "Bob",
                              temp_token_account_pubkey |-> "AliceX",
                              initializer_token_to_receive_account_pubkey |-> "BobY",
                              expected_amount |-> 0])
            ELSE ZeroedRecord]
    /\ last = [op |-> "None", result |-> "None"]

Next == InitEscrow \/ Exchange

Spec == Init /\ [][Next]_vars

----------------------------------------------------------------------------
(* Vocabulary of the properties *)

\* A record account's place in its lifecycle.
RecordState(d) ==
    IF d = EmptyData THEN "Destroyed"
    ELSE IF Escrow_unpack(d).ok THEN "Initialized"
    ELSE "Uninitialized"

Succeeded(op) == last = [op |-> op, result |-> "Ok"]

\* The token balance an account holds in ledger L, and whether it holds one.
IsTokenAccount(L, acct) == TokenAccount_unpack(L.data[acct]).ok
Held(L, acct) == TokenAccount_unpack(L.data[acct]).val.amount
Authority(L, acct) == TokenAccount_unpack(L.data[acct]).val.owner

\* The records the program itself wrote: open escrows.
OpenEscrows ==
    {r \in RecordAccts : owner[r] = EscrowProg /\ Escrow_unpack(data[r]).ok}

Record(r) == Escrow_unpack(data[r]).val

----------------------------------------------------------------------------
(* C1: a record's state only ever moves Uninitialized -> Initialized, by a
   successful InitEscrow, and Initialized -> Destroyed, by a successful
   Exchange; no invocation, failing or successful, moves it any other way. *)
C1_RecordLifecycle ==
    [][\A r \in RecordAccts :
          RecordState(data'[r]) # RecordState(data[r]) =>
              \/ /\ RecordState(data[r]) = "Uninitialized"
                 /\ RecordState(data'[r]) = "Initialized"
                 /\ last' = [op |-> "InitEscrow", result |-> "Ok"]
              \/ /\ RecordState(data[r]) = "Initialized"
                 /\ RecordState(data'[r]) = "Destroyed"
                 /\ last' = [op |-> "Exchange", result |-> "Ok"]]_vars

\* One record has gone through its whole life while another is open.
C1_Witness ==
    /\ RecordState(data["Esc1"]) = "Destroyed"
    /\ RecordState(data["Esc2"]) = "Initialized"

(* C2: the offered asset leaves a custody account placed in escrow if and
   only if the same Exchange, on the record that placed it there, pays the
   record's expected_amount from the taker's sending account to the receive
   account the record names. *)
C2_SwapAtomicOrNever ==
    \A a \in ExchangeAccounts, amount \in Amounts : \A r \in OpenEscrows :
        LET out == ExchangeOutcome(a, amount)
            post == After(a, out)
            c == Record(r).temp_token_account_pubkey
            left == /\ IsTokenAccount(Ledger, c)
                    /\ \/ ~IsTokenAccount(post, c)
                       \/ Held(post, c) < Held(Ledger, c)
            paid == /\ out.result = "Ok"
                    /\ a.escrow_account = r
                    /\ \E i \in DOMAIN out.issued :
                        /\ out.issued[i].kind = "Transfer"
                        /\ out.issued[i].account = a.taker_sending_token_account
                        /\ out.issued[i].other =
                               Record(r).initializer_token_to_receive_account_pubkey
                        /\ out.issued[i].amount = Record(r).expected_amount
        IN left <=> paid

(* C3: an Exchange that fails at any step, a check or one of the four
   operations, leaves every account as it was: balances, authorities,
   existence and the record's bytes, whatever had been issued before. *)
C3_FailedExchangeChangesNothing ==
    \A a \in ExchangeAccounts, amount \in Amounts :
        LET out == ExchangeOutcome(a, amount) IN
        out.result # "Ok" => After(a, out) = Ledger

\* An Exchange has failed at its last step, after three requests went out.
C3_Witness == last = [op |-> "Exchange", result |-> "AmountOverflow"]

\* The four token accounts of an Exchange are four accounts.
DistinctTokenAccounts(a) ==
    Cardinality({a.taker_sending_token_account,
                 a.taker_token_to_receive_account,
                 a.temp_token_account,
                 a.initializer_token_to_receive_account}) = 4

\* What a successful Exchange leaves, against the ledger before it.
ExchangePostcondition(a, post) ==
    LET rec == Escrow_unpack(data[a.escrow_account]).val
        recv == a.initializer_token_to_receive_account
        taker_recv == a.taker_token_to_receive_account
        temp == a.temp_token_account
        main == a.initializer_main_account
        escrow == a.escrow_account
    IN
    /\ IsTokenAccount(post, recv)
    /\ Held(post, recv) = Held(Ledger, recv) + rec.expected_amount
    /\ IsTokenAccount(post, taker_recv)
    /\ Held(post, taker_recv) = Held(Ledger, taker_recv) + Held(Ledger, temp)
    /\ post.lamports[temp] = 0 /\ post.data[temp] = EmptyData
    /\ post.lamports[escrow] = 0 /\ post.data[escrow] = EmptyData
    /\ post.lamports[main] = lamports[main] + lamports[temp] + lamports[escrow]

(* C4, as stated: after every successful Exchange the initializer's receive
   account holds expected_amount more, the taker's receive account holds the
   custody account's whole balance more, the custody and record accounts are
   gone, and the initializer's main account has gained both their ledger
   balances. *)
C4_ExchangePostcondition_AsStated ==
    \A a \in ExchangeAccounts, amount \in Amounts :
        LET out == ExchangeOutcome(a, amount) IN
        out.result = "Ok" => ExchangePostcondition(a, After(a, out))

(* C4, amended: the same, for an Exchange whose four token accounts are
   four different accounts. *)
C4_ExchangePostcondition ==
    \A a \in ExchangeAccounts, amount \in Amounts :
        LET out == ExchangeOutcome(a, amount) IN
        out.result = "Ok" /\ DistinctTokenAccounts(a) =>
            ExchangePostcondition(a, After(a, out))

\* A swap of the whole custody balance for one unit has gone through, and
\* Alice's wallet has gained the custody's and the record's balances.
C4_Witness ==
    /\ Succeeded("Exchange")
    /\ IsTokenAccount(Ledger, "AliceY") /\ Held(Ledger, "AliceY") = 1
    /\ IsTokenAccount(Ledger, "BobX") /\ Held(Ledger, "BobX") = MaxAmount
    /\ lamports["Alice"] = 2 * minimum_balance(Escrow_LEN)
                           + minimum_balance(TokenAccount_LEN)
                           + minimum_balance(Escrow_LEN)

(* C5: in every successful Exchange the first transfer moves the record's
   expected_amount from the taker's sending account to the initializer's
   receive account; the amount the caller supplied equals the custody
   account's balance and is not what the initializer is paid. *)
C5_PaysExpectedAmount ==
    \A a \in ExchangeAccounts, amount \in Amounts :
        LET out == ExchangeOutcome(a, amount) IN
        out.result = "Ok" =>
            /\ Len(out.issued) >= 1
            /\ out.issued[1].kind = "Transfer"
            /\ out.issued[1].account = a.taker_sending_token_account
            /\ out.issued[1].other = a.initializer_token_to_receive_account
            /\ out.issued[1].authority = a.taker
            /\ out.issued[1].amount =
                   Escrow_unpack(data[a.escrow_account]).val.expected_amount
            /\ amount = Held(Ledger, a.temp_token_account)

\* Bob has paid 1 for a custody balance of MaxAmount, the amount an Exchange
\* has to supply.
C5_Witness ==
    /\ Succeeded("Exchange")
    /\ IsTokenAccount(Ledger, "BobY") /\ Held(Ledger, "BobY") = MaxAmount - 1
    /\ IsTokenAccount(Ledger, "BobX") /\ Held(Ledger, "BobX") = MaxAmount
    /\ 1 # MaxAmount

(* C6: after every successful InitEscrow the custody account's authority is
   the address derived from "escrow" and the program id, no longer the
   initializer, and the record holds the flag, the initializer, the custody
   account, the receive account and the instruction's amount. *)
C6_InitPostcondition ==
    \A a \in InitEscrowAccounts, amount \in Amounts :
        LET out == InitEscrowOutcome(a, amount)
            post == After(a, out)
        IN
        out.result = "Ok" =>
            /\ IsTokenAccount(post, a.temp_token_account)
            /\ Authority(post, a.temp_token_account)
                   = find_program_address("escrow", EscrowProg).address
            /\ Authority(post, a.temp_token_account) # a.initializer
            /\ Authority(Ledger, a.temp_token_account) = a.initializer
            /\ Escrow_unpack_unchecked(post.data[a.escrow_account]) =
                   [ok |-> TRUE,
                    val |-> [is_initialized |-> TRUE,
                             initializer_pubkey |-> a.initializer,
                             temp_token_account_pubkey |-> a.temp_token_account,
                             initializer_token_to_receive_account_pubkey |->
                                 a.initializer_token_to_receive_account,
                             expected_amount |-> amount]]

\* Alice has opened an escrow of AliceX for 1 unit into AliceY.
C6_Witness ==
    /\ Succeeded("InitEscrow")
    /\ Authority(Ledger, "AliceX") = Pda
    /\ data["Esc1"] = <<TRUE, "Alice", "AliceX", "AliceY", 1>>

(* C7: an Exchange signed by the taker whose supplied amount differs from
   the custody account's balance fails with EscrowAmountMismatch, issues no
   request and changes nothing. *)
C7_AmountMismatch ==
    \A a \in ExchangeAccounts, amount \in Amounts :
        LET out == ExchangeOutcome(a, amount) IN
        /\ a.taker \in a.signers
        /\ IsTokenAccount(Ledger, a.temp_token_account)
        /\ Held(Ledger, a.temp_token_account) # amount
        => /\ out.result = "EscrowAmountMismatch"
           /\ out.issued = <<>>
           /\ After(a, out) = Ledger

C7_Witness == last = [op |-> "Exchange", result |-> "EscrowAmountMismatch"]

\* An Exchange names an account other than the one its initialized record
\* stores.
IdentityMismatch(a) ==
    /\ Escrow_unpack(data[a.escrow_account]).ok
    /\ LET rec == Escrow_unpack(data[a.escrow_account]).val IN
       \/ rec.initializer_pubkey # a.initializer_main_account
       \/ rec.initializer_token_to_receive_account_pubkey
              # a.initializer_token_to_receive_account
       \/ rec.temp_token_account_pubkey # a.temp_token_account

(* C8, as stated: every Exchange that names an initializer, receive or
   custody account other than the one stored in the record InitEscrow
   initialized fails with InvalidAccountData and moves nothing. *)
C8_IdentityMismatch_AsStated ==
    \A a \in ExchangeAccounts, amount \in Amounts :
        LET out == ExchangeOutcome(a, amount) IN
        a.escrow_account \in OpenEscrows /\ IdentityMismatch(a) =>
            /\ out.result = "InvalidAccountData"
            /\ out.issued = <<>>
            /\ After(a, out) = Ledger

(* C8, amended: every such Exchange fails and moves nothing, and it fails
   with InvalidAccountData when the taker signed and the supplied amount is
   the supplied custody account's balance. *)
C8_IdentityMismatch ==
    \A a \in ExchangeAccounts, amount \in Amounts :
        LET out == ExchangeOutcome(a, amount) IN
        IdentityMismatch(a) =>
            /\ out.result # "Ok"
            /\ out.issued = <<>>
            /\ After(a, out) = Ledger
            /\ /\ a.taker \in a.signers
               /\ IsTokenAccount(Ledger, a.temp_token_account)
               /\ Held(Ledger, a.temp_token_account) = amount
               => out.result = "InvalidAccountData"

\* An Exchange has been refused for naming the wrong account: every token
\* account and record still decodes, so the error is the cross-check's.
C8_Witness ==
    /\ last = [op |-> "Exchange", result |-> "InvalidAccountData"]
    /\ \A t \in TokenAccts : IsTokenAccount(Ledger, t)
    /\ \A r \in RecordAccts : data[r] # EmptyData
    /\ \E a \in ExchangeAccounts, amount \in Amounts :
        /\ a.escrow_account \in OpenEscrows
        /\ IdentityMismatch(a)
        /\ ExchangeOutcome(a, amount).result = "InvalidAccountData"

(* C9: an InitEscrow on a record already flagged initialized fails, with
   AccountAlreadyInitialized when the signer, receive-account and
   minimum-balance checks pass, and leaves the custody account's authority
   and the record's fields as they were. *)
C9_NoReinitialization ==
    \A a \in InitEscrowAccounts, amount \in Amounts :
        LET out == InitEscrowOutcome(a, amount)
            post == After(a, out)
            u == Escrow_unpack_unchecked(data[a.escrow_account])
        IN
        u.ok /\ u.val.is_initialized =>
            /\ out.result # "Ok"
            /\ post.data[a.escrow_account] = data[a.escrow_account]
            /\ post.data[a.temp_token_account] = data[a.temp_token_account]
            /\ post = Ledger
            /\ /\ a.initializer \in a.signers
               /\ owner[a.initializer_token_to_receive_account] = TokenProg
               /\ is_exempt(lamports[a.escrow_account], Len(data[a.escrow_account]))
               => out.result = "AccountAlreadyInitialized"

C9_Witness ==
    /\ last = [op |-> "InitEscrow", result |-> "AccountAlreadyInitialized"]
    /\ OpenEscrows # {}

(* C10: an InitEscrow whose initializer did not sign fails with
   MissingRequiredSignature, and the record account's bytes and the custody
   account's authority are what they were. *)
C10_InitNeedsSignature ==
    \A a \in InitEscrowAccounts, amount \in Amounts :
        LET out == InitEscrowOutcome(a, amount)
            post == After(a, out)
        IN
        a.initializer \notin a.signers =>
            /\ out.result = "MissingRequiredSignature"
            /\ out.issued = <<>>
            /\ post.data[a.escrow_account] = data[a.escrow_account]
            /\ post.data[a.temp_token_account] = data[a.temp_token_account]

C10_Witness ==
    last = [op |-> "InitEscrow", result |-> "MissingRequiredSignature"]

(* C11: an InitEscrow signed by the initializer whose receive account is not
   owned by the token program fails with IncorrectProgramId before any
   mutation: nothing is issued, and the handler's ledger and the ledger
   after the transaction are the ledger before. *)
C11_ReceiveOwnerChecked ==
    \A a \in InitEscrowAccounts, amount \in Amounts :
        LET out == InitEscrowOutcome(a, amount) IN
        /\ a.initializer \in a.signers
        /\ owner[a.initializer_token_to_receive_account] # TokenProg
        => /\ out.result = "IncorrectProgramId"
           /\ out.issued = <<>>
           /\ out.ledger = Ledger
           /\ After(a, out) = Ledger

\* An InitEscrow naming a wallet as receive account has been refused.
C11_Witness ==
    /\ last = [op |-> "InitEscrow", result |-> "IncorrectProgramId"]
    /\ \E a \in InitEscrowAccounts :
        /\ a.initializer \in a.signers
        /\ owner[a.initializer_token_to_receive_account] # TokenProg

(* C12: every Exchange on a record account that does not decode as an
   initialized record (never initialized, or consumed) fails, issues no
   request and changes nothing; and after every successful Exchange the
   record account no longer decodes as initialized, so the same Exchange
   (same accounts, same amount) run again fails and issues nothing. *)
C12_NonReplay ==
    \A a \in ExchangeAccounts, amount \in Amounts :
        LET out == ExchangeOutcome(a, amount)
            post == After(a, out)
            again == process_exchange_escrow(post, a, amount, EscrowProg)
        IN
        /\ ~Escrow_unpack(data[a.escrow_account]).ok =>
               /\ out.result # "Ok"
               /\ out.issued = <<>>
               /\ post = Ledger
        /\ out.result = "Ok" =>
               /\ ~Escrow_unpack(post.data[a.escrow_account]).ok
               /\ again.result # "Ok"
               /\ again.issued = <<>>
               /\ commit(post, again, touched(a)) = post

\* A swap has gone through: its record is gone, and a zeroed record that
\* was never initialized is still there.
C12_Witness ==
    /\ Succeeded("Exchange")
    /\ RecordState(data["Esc1"]) = "Destroyed"
    /\ RecordState(data["Esc2"]) = "Uninitialized"

(* C13: a record is never updated in place: whatever the invocation, the
   bytes of a record that decodes as initialized stay what they are, or the
   account ceases to exist in a successful Exchange on that very record. *)
C13_RecordNeverUpdated ==
    /\ \A a \in InitEscrowAccounts, amount \in Amounts :
        LET post == After(a, InitEscrowOutcome(a, amount)) IN
        \A r \in RecordAccts :
            RecordState(data[r]) = "Initialized" => post.data[r] = data[r]
    /\ \A a \in ExchangeAccounts, amount \in Amounts :
        LET out == ExchangeOutcome(a, amount)
            post == After(a, out)
        IN
        \A r \in RecordAccts :
            RecordState(data[r]) = "Initialized" =>
                \/ post.data[r] = data[r]
                \/ /\ out.result = "Ok"
                   /\ a.escrow_account = r
                   /\ RecordState(post.data[r]) = "Destroyed"

\* Alice's record still holds what InitEscrow wrote after a swap on another
\* record has gone through.
C13_Witness ==
    /\ Succeeded("Exchange")
    /\ data["Esc1"] = Escrow_pack(new_escrow_info("Alice", "AliceX", "AliceY", 1))
    /\ owner["Esc1"] = EscrowProg
    /\ RecordState(data["Forged"]) = "Destroyed"

(* C14: there is no cancellation or refund: a token account under the
   derived authority keeps its authority and its balance through every
   InitEscrow and every Exchange that does not succeed; only a successful
   Exchange changes it. *)
C14_NoCancellation ==
    \A c \in TokenAccts :
        IsTokenAccount(Ledger, c) /\ Authority(Ledger, c) = Pda =>
            /\ \A a \in InitEscrowAccounts, amount \in Amounts :
                   After(a, InitEscrowOutcome(a, amount)).data[c] = data[c]
            /\ \A a \in ExchangeAccounts, amount \in Amounts :
                   LET out == ExchangeOutcome(a, amount) IN
                   out.result # "Ok" => After(a, out).data[c] = data[c]

\* Alice's offered asset sits under the derived authority, and the last
\* Exchange attempted has failed after its transfers were issued.
C14_Witness ==
    /\ last = [op |-> "Exchange", result |-> "AmountOverflow"]
    /\ IsTokenAccount(Ledger, "AliceX")
    /\ Authority(Ledger, "AliceX") = Pda
    /\ Held(Ledger, "AliceX") = MaxAmount

\* An Exchange has come to its fourth operation: three requests went out and
\* the custody account has been closed.
ReachedReclaim(a, out) ==
    /\ Len(out.issued) = 3
    /\ out.ledger.lamports[a.temp_token_account] = 0

(* C15: in an Exchange that comes to its fourth operation, the record
   account's balance is added to the initializer's main account balance as
   it stands after the custody account was closed into it: when the sum
   exceeds the largest unsigned value the invocation fails with
   AmountOverflow and leaves nothing of its three requests; otherwise the
   handler leaves the record account without balance, and, the record
   account and the main account being two accounts, the invocation
   succeeds, the main account holds the exact sum, and the record account
   has no balance and no data. *)
C15_CheckedReclaim ==
    \A a \in ExchangeAccounts, amount \in Amounts :
        LET out == ExchangeOutcome(a, amount)
            post == After(a, out)
            main == a.initializer_main_account
            escrow == a.escrow_account
            main_after_close == lamports[main] + lamports[a.temp_token_account]
            sum == main_after_close
                       + (IF escrow = main THEN main_after_close
                          ELSE lamports[escrow])
        IN
        ReachedReclaim(a, out) =>
            IF sum > U64_MAX
            THEN /\ out.result = "AmountOverflow"
                 /\ post = Ledger
            ELSE /\ out.result # "AmountOverflow"
                 /\ out.ledger.lamports[escrow] = 0
                 /\ escrow # main =>
                        /\ out.result = "Ok"
                        /\ post.lamports[main] = sum
                        /\ post.lamports[escrow] = 0
                        /\ post.data[escrow] = EmptyData

\* Reclaiming into Bob's full wallet has overflowed, and nothing was kept.
C15_Witness ==
    /\ last = [op |-> "Exchange", result |-> "AmountOverflow"]
    /\ \E a \in ExchangeAccounts, amount \in Amounts :
        /\ ReachedReclaim(a, ExchangeOutcome(a, amount))
        /\ lamports[a.initializer_main_account]
               + lamports[a.temp_token_account] <= U64_MAX
        /\ lamports[a.initializer_main_account]
               + lamports[a.temp_token_account]
               + lamports[a.escrow_account] > U64_MAX

(* C16: Exchange releases a custody account only on a record account owned
   by the escrow program and with the derived address as authority
   reference: every successful Exchange names such a record account. *)
C16_ExchangeVerifiesRecordOwner ==
    \A a \in ExchangeAccounts, amount \in Amounts :
        ExchangeOutcome(a, amount).result = "Ok" =>
            /\ owner[a.escrow_account] = EscrowProg
            /\ a.pda_account = Pda

(* C17: InitEscrow checks, in this order, the initializer's signature, the
   receive account's owner, the record account's rent exemption and the
   record's flag; its error is that of the first check that fails, and the
   record is written and the request issued only when all four pass. *)
C17_InitValidationOrder ==
    \A a \in InitEscrowAccounts, amount \in Amounts :
        LET out == InitEscrowOutcome(a, amount)
            signed == a.initializer \in a.signers
            token_owned == owner[a.initializer_token_to_receive_account] = TokenProg
            exempt == lamports[a.escrow_account]
                          >= minimum_balance(Len(data[a.escrow_account]))
            u == Escrow_unpack_unchecked(data[a.escrow_account])
            flagged == u.ok /\ u.val.is_initialized
        IN
        /\ ~signed => out.result = "MissingRequiredSignature"
        /\ signed /\ ~token_owned => out.result = "IncorrectProgramId"
        /\ signed /\ token_owned /\ ~exempt => out.result = "NotRentExempt"
        /\ signed /\ token_owned /\ exempt /\ flagged =>
               out.result = "AccountAlreadyInitialized"
        /\ out.issued # <<>> \/ out.ledger # Ledger =>
               signed /\ token_owned /\ exempt /\ u.ok /\ ~flagged

\* An InitEscrow on a flagged record account without balance has been
\* refused for the balance, the earlier of the two checks it fails.
C17_Witness ==
    /\ last = [op |-> "InitEscrow", result |-> "NotRentExempt"]
    /\ \E r \in RecordAccts :
        /\ Escrow_unpack(data[r]).ok
        /\ lamports[r] < minimum_balance(Len(data[r]))

(* C18: Exchange checks, in this order, the taker's signature, the custody
   balance against the supplied amount, the record's strict decoding and
   the three identities; its error is that of the first check that fails,
   and no request is issued before all of them pass. *)
C18_ExchangeValidationOrder ==
    \A a \in ExchangeAccounts, amount \in Amounts :
        LET out == ExchangeOutcome(a, amount)
            signed == a.taker \in a.signers
            custody == IsTokenAccount(Ledger, a.temp_token_account)
            amount_ok == custody /\ Held(Ledger, a.temp_token_account) = amount
            rec == Escrow_unpack(data[a.escrow_account])
        IN
        /\ ~signed => out.result = "MissingRequiredSignature"
        /\ signed /\ custody /\ ~amount_ok => out.result = "EscrowAmountMismatch"
        /\ signed /\ amount_ok /\ ~rec.ok => out.result = rec.err
        /\ signed /\ amount_ok /\ ~rec.ok /\ Len(data[a.escrow_account]) = Escrow_LEN =>
               out.result = "UninitializedAccount"
        /\ signed /\ amount_ok /\ IdentityMismatch(a) =>
               out.result = "InvalidAccountData"
        /\ out.issued # <<>> =>
               signed /\ amount_ok /\ rec.ok /\ ~IdentityMismatch(a)

\* An Exchange on a record never initialized has been refused by the
\* strict decoding.
C18_Witness ==
    /\ last = [op |-> "Exchange", result |-> "UninitializedAccount"]
    /\ \E r \in RecordAccts : RecordState(data[r]) = "Uninitialized"

(* C19: in every reachable state every record the program initialized names
   a custody account that is a token account under the derived authority,
   and no two such records name the same custody account. *)
C19_OpenRecordsHoldCustody ==
    \A r \in OpenEscrows :
        LET c == Record(r).temp_token_account_pubkey IN
        /\ IsTokenAccount(Ledger, c)
        /\ Authority(Ledger, c) = Pda
        /\ \A r2 \in OpenEscrows \ {r} : Record(r2).temp_token_account_pubkey # c

\* The ledger balance of a set of accounts.
Balance(L, S) == SumOver(L.lamports, S)

(* C20: every successful Exchange keeps the sum of the ledger balances of
   the initializer's main account, the custody account, the record account
   and the taker, counted once each when supplied accounts are the same
   account, and keeps the sum over the whole ledger; an Exchange whose
   record account is also its main account never succeeds. *)
C20_ExchangeConservesBalance ==
    \A a \in ExchangeAccounts, amount \in Amounts :
        LET out == ExchangeOutcome(a, amount)
            post == After(a, out)
            S == {a.initializer_main_account, a.temp_token_account,
                  a.escrow_account, a.taker}
        IN
        out.result = "Ok" =>
            /\ Balance(post, S) = Balance(Ledger, S)
            /\ Balance(post, Accounts) = Balance(Ledger, Accounts)
            /\ a.escrow_account # a.initializer_main_account

\* A swap has closed a custody account into Bob's wallet through a record
\* account without balance, and an Exchange naming the record account as
\* main account comes to the reclaim.
C20_Witness ==
    /\ Succeeded("Exchange")
    /\ RecordState(data["Forged"]) = "Destroyed"
    /\ lamports["Bob"] = U64_MAX - minimum_balance(Escrow_LEN) + 1
    /\ \E a \in AliasedExchangeAccounts, amount \in Amounts :
        ReachedReclaim(a, ExchangeOutcome(a, amount))

====
